---- MODULE Spec2Model ----
(***************************************************************************)
(* The constrained input editor of anagrama-cli (interactiveInput and its  *)
(* keystroke handler handleKey) and the game loop of doPlay that calls it, *)
(* modelled from src/unnamed/part_000.                                     *)
(* The handler of src/anagrama-cli/src/index.ts is the same code up to the *)
(* escape sequences it writes.                                             *)
(*                                                                         *)
(* Strings are sequences of characters; a character is a one-character     *)
(* string, control characters are written by their ASCII names ("ETX" is   *)
(* \u0003, "ESC" is \u001B, "DEL" is \u007F, "BS" is \b, "TAB", "CR",      *)
(* "LF").  Indices are 0-based as in the source.                           *)
(***************************************************************************)
EXTENDS Integers, Sequences, FiniteSets, TLC

\* ------------------------------------------------------------------ bounds
\* longest pool handed to the editor
MaxPool == 3
\* the environment types a further character into a Command-mode buffer only
\* while the buffer is shorter than this (an arrow sequence, Tab and Enter
\* completion may leave longer buffers)
MaxBuf == 3
\* most Ctrl-C notices the environment provokes in one session
MaxNotices == 2
\* the game loop is followed while attempts is below this
MaxAttempts == 2
\* most entries the guess history takes in one game
MaxHistory == 2
\* most updateStats calls and server syncs followed
MaxCalls == 3

\* ------------------------------------------------------- strings and keys
LowerLetters == <<"a","b","c","d","e","f","g","h","i","j","k","l","m",
                  "n","o","p","q","r","s","t","u","v","w","x","y","z">>
UpperLetters == <<"A","B","C","D","E","F","G","H","I","J","K","L","M",
                  "N","O","P","Q","R","S","T","U","V","W","X","Y","Z">>

Range(s) == {s[i] : i \in DOMAIN s}

\* String.prototype.toUpperCase on one character
toUpperCase(c) ==
  IF \E i \in DOMAIN LowerLetters : LowerLetters[i] = c
  THEN UpperLetters[CHOOSE i \in DOMAIN LowerLetters : LowerLetters[i] = c]
  ELSE c

\* String.prototype.toLowerCase on one character
toLowerCaseChar(c) ==
  IF \E i \in DOMAIN UpperLetters : UpperLetters[i] = c
  THEN LowerLetters[CHOOSE i \in DOMAIN UpperLetters : UpperLetters[i] = c]
  ELSE c

\* String.prototype.toLowerCase on a string
toLowerCase(str) == [i \in DOMAIN str |-> toLowerCaseChar(str[i])]

\* String.prototype.startsWith
startsWith(str, prefix) ==
  /\ Len(prefix) <= Len(str)
  /\ SubSeq(str, 1, Len(prefix)) = prefix

\* String.prototype.slice(0, -1)
sliceLast(str) == SubSeq(str, 1, Len(str) - 1)

\* the regular expression /^[a-zA-Z]$/
IsLetterKey(k) ==
  /\ Len(k) = 1
  /\ k[1] \in Range(LowerLetters) \cup Range(UpperLetters)

CtrlC     == <<"ETX">>
UpArrow   == <<"ESC", "[", "A">>
DownArrow == <<"ESC", "[", "B">>
LeftArrow == <<"ESC", "[", "D">>
Tab       == <<"TAB">>
EnterCR   == <<"CR">>
EnterLF   == <<"LF">>
Backspace == <<"DEL">>
BackspaceBS == <<"BS">>
Escape    == <<"ESC">>
Slash     == <<"/">>

\* keys that reach the tail of handleKey (no special meaning)
CharKeys == {<<"a">>, <<"B">>, <<"h">>, <<"1">>, Slash, LeftArrow}

\* the keystrokes the terminal delivers
Keys == {CtrlC, UpArrow, DownArrow, Tab, EnterCR, EnterLF, Backspace,
         BackspaceBS, Escape} \cup CharKeys

\* letters of a scramble (doPlay upper-cases the scramble before splitting)
PoolLetters == {"A", "B"}

\* the scrambles handed to the editor, taken up to renaming of the two letters
Pools == {p \in UNION {[1..n -> PoolLetters] : n \in 1..MaxPool} : p[1] = "A"}

\* letters of a scramble as the server sends it
ScrambleLetters == {"a", "B"}

Scrambles == UNION {[1..n -> ScrambleLetters] : n \in 1..MaxPool}

\* currentScramble.toUpperCase().split("")
letterPoolOf(str) == [i \in DOMAIN str |-> toUpperCase(str[i])]

\* a shuffle that draws each place at random from the letters, with repeats
shuffled_Resamples(str) ==
  {[i \in DOMAIN str |-> str[f[i]]] : f \in [DOMAIN str -> DOMAIN str]}

\* the orders sort(() => Math.random() - 0.5) can leave a string in
shuffled(str) ==
  {[i \in DOMAIN str |-> str[f[i]]] : f \in Permutations(DOMAIN str)}

\* --------------------------------------------------------------- registry
COMMANDS ==
  << [name |-> <<"/","h","e","l","p">>],
     [name |-> <<"/","h","i","n","t">>],
     [name |-> <<"/","e","x","i","t">>],
     [name |-> <<"/","q","u","i","t">>],
     [name |-> <<"/","s","h","u","f","f","l","e">>] >>

\* rows of the terminal below the input line that the model records
ScreenRows == Len(COMMANDS)

BlankRow == [kind |-> "blank"]
NoticeRow == [kind |-> "notice"]
\* a line doPlay writes below the input line ("Letters shuffled!", "Unknown
\* command: ...")
MessageRow(what) == [kind |-> "message", what |-> what]
MenuRow(cmd, isSelected) == [kind |-> "menu", name |-> cmd.name, selected |-> isSelected]
BlankScreen == [i \in 1..ScreenRows |-> BlankRow]

NoResult == [resolved |-> FALSE]

\* the stats of a player who has not played yet
DEFAULT_STATS ==
  [gamesPlayed |-> 0, gamesWon |-> 0, currentStreak |-> 0, maxStreak |-> 0,
   guessDistribution |-> <<0, 0, 0, 0, 0>>, lastPlayedDate |-> "",
   lastPlayedWon |-> FALSE, lastPlayedAttempts |-> 0]

VARIABLES
  pool,               \* the letter pool passed to interactiveInput
  input,              \* the edit buffer
  isCommandMode,      \* TRUE: Command mode, FALSE: Word mode
  selectedIndex,      \* Selection Index
  filteredCommands,   \* Filtered Command List
  menuVisible,
  renderedMenuLines,  \* Rendered Overlay Line Count
  usedIndices,        \* Consumed Set, in insertion order (a JS Set iterates so)
  ctrlCShown,
  listening,          \* handleKey is registered on stdin
  result,             \* what the promise resolved with, or NoResult
  below,              \* what the terminal shows on the rows below the input line
  shownInput,         \* what the terminal shows on the input line
  updates,            \* the onUpdate calls made by the last keystroke
  wrote,              \* the last keystroke wrote to the terminal
  noticeCount,        \* how often the Ctrl-C notice was written in this session
  overdrawn,          \* the last keystroke drew a menu line onto a row that still held one
  rawMode,            \* stdin is in raw mode
  listeners,          \* number of handleKey listeners registered on stdin
  key,                \* the keystroke delivered last
  handled,            \* handleKey has returned for that keystroke
  pc,                 \* where doPlay stands: the await it is suspended at
  inFlight,           \* the network request doPlay awaits, or "none"
  done,               \* doPlay's done
  scramble,           \* the scramble of the puzzle as loaded
  currentScramble,    \* doPlay's currentScramble
  attempts,           \* doPlay's attempts
  guessHistory,       \* doPlay's guessHistory: the words pushed, in order
  stats,              \* the GameStats object in the stats file
  calls               \* the dateKey arguments of the updateStats calls made so far

vars == <<pool, input, isCommandMode, selectedIndex, filteredCommands,
          menuVisible, renderedMenuLines, usedIndices, ctrlCShown, listening,
          result, below, shownInput, updates, wrote, noticeCount, overdrawn,
          rawMode, listeners, key, handled, pc, inFlight, done, scramble,
          currentScramble, attempts, guessHistory, stats, calls>>

\* the variables of doPlay
gameVars == <<pc, inFlight, done, scramble, currentScramble, attempts,
              guessHistory>>

\* the stats file and the record of the calls that wrote it
statsVars == <<stats, calls>>

\* the closure state of interactiveInput as one record
State ==
  [input |-> input, isCommandMode |-> isCommandMode,
   selectedIndex |-> selectedIndex, filteredCommands |-> filteredCommands,
   menuVisible |-> menuVisible, renderedMenuLines |-> renderedMenuLines,
   usedIndices |-> usedIndices, ctrlCShown |-> ctrlCShown,
   listening |-> listening, result |-> result, below |-> below,
   shownInput |-> shownInput, updates |-> updates, wrote |-> wrote,
   noticeCount |-> noticeCount, overdrawn |-> overdrawn, rawMode |-> rawMode,
   listeners |-> listeners]

\* ------------------------------------------------------------ pool tracker
\* Set.prototype.has
has(used, i) == \E j \in DOMAIN used : used[j] = i

\* Set.prototype.add
add(used, i) == IF has(used, i) THEN used ELSE Append(used, i)

RECURSIVE scanPool(_, _, _, _)
scanPool(upperLetter, p, used, i) ==
  IF i >= Len(p) THEN -1
  ELSE IF ~has(used, i) /\ toUpperCase(p[i + 1]) = upperLetter THEN i
  ELSE scanPool(upperLetter, p, used, i + 1)

\* a scan that matches the letter value and forgets the consumed positions
isLetterAvailable_IgnoresUsed(letter, p, used) ==
  scanPool(toUpperCase(letter), p, <<>>, 0)

\* a scan that runs from the end of the pool: it returns the highest free index
isLetterAvailable_LastMatch(letter, p, used) ==
  LET free == {i \in 0..(Len(p) - 1) :
                 ~has(used, i) /\ toUpperCase(p[i + 1]) = toUpperCase(letter)}
  IN IF free = {} THEN -1 ELSE CHOOSE i \in free : \A j \in free : j <= i

isLetterAvailable(letter, p, used) == scanPool(toUpperCase(letter), p, used, 0)

\* a release loop without its break: it frees every index with that letter
releaseIndex_AllMatching(upperChar, p, used) ==
  SelectSeq(used, LAMBDA i : toUpperCase(p[i + 1]) # upperChar)

\* a release that drops the index consumed last, whatever letter it holds
releaseIndex_Last(upperChar, p, used) ==
  IF used = <<>> THEN used ELSE SubSeq(used, 1, Len(used) - 1)

\* the release loop of the Backspace branch: delete the first index, in
\* iteration order, whose pool letter is upperChar
releaseIndex(upperChar, p, used) ==
  IF \E j \in DOMAIN used : toUpperCase(p[used[j] + 1]) = upperChar
  THEN LET j == CHOOSE j \in DOMAIN used :
                  /\ toUpperCase(p[used[j] + 1]) = upperChar
                  /\ \A h \in 1..(j - 1) : toUpperCase(p[used[h] + 1]) # upperChar
       IN SubSeq(used, 1, j - 1) \o SubSeq(used, j + 1, Len(used))
  ELSE used

\* ---------------------------------------------------------------- renderer
getFilteredCommands(s) ==
  IF ~s.isCommandMode THEN <<>>
  ELSE SelectSeq(COMMANDS, LAMBDA c : startsWith(c.name, s.input))

\* a clearBelow whose loop stops one row early
clearBelow_OffByOne(s, lines) ==
  IF lines = 0 THEN s
  ELSE [s EXCEPT !.below = [i \in 1..ScreenRows |->
                              IF i <= lines - 1 THEN BlankRow ELSE s.below[i]],
                 !.wrote = TRUE]

clearBelow(s, lines) ==
  IF lines = 0 THEN s
  ELSE [s EXCEPT !.below = [i \in 1..ScreenRows |->
                              IF i <= lines THEN BlankRow ELSE s.below[i]],
                 !.wrote = TRUE]

\* a clearMenu that also forgets the filtered list
clearMenu_DropsList(s) ==
  IF s.renderedMenuLines = 0 THEN s
  ELSE [clearBelow(s, s.renderedMenuLines) EXCEPT
          !.menuVisible = FALSE, !.renderedMenuLines = 0,
          !.filteredCommands = <<>>]

clearMenu(s) ==
  IF s.renderedMenuLines = 0 THEN s
  ELSE [clearBelow(s, s.renderedMenuLines) EXCEPT
          !.menuVisible = FALSE, !.renderedMenuLines = 0]

renderInput(s) == [s EXCEPT !.shownInput = s.input, !.wrote = TRUE]

\* a renderMenu that returns early on an empty filter, before it stores it
renderMenu_StaleList(s) ==
  LET fc == getFilteredCommands(s)
      s1 == clearBelow(s, s.renderedMenuLines)
  IN IF Len(fc) = 0
     THEN [s1 EXCEPT !.menuVisible = FALSE, !.renderedMenuLines = 0]
     ELSE LET s2 == [s1 EXCEPT
                       !.filteredCommands = fc,
                       !.below = [i \in 1..ScreenRows |->
                                    IF i <= Len(fc)
                                    THEN MenuRow(fc[i], i - 1 = s1.selectedIndex)
                                    ELSE s1.below[i]],
                       !.overdrawn = s1.overdrawn \/
                                       \E i \in 1..Len(fc) : s1.below[i].kind = "menu",
                       !.wrote = TRUE]
          IN [renderInput(s2) EXCEPT !.menuVisible = TRUE,
                                     !.renderedMenuLines = Len(fc)]

\* a renderMenu that does not erase the lines drawn before: it writes the new
\* lines over them
renderMenu_NoErase(s) ==
  LET fc == getFilteredCommands(s)
      s1 == [s EXCEPT !.filteredCommands = fc]
  IN IF Len(fc) = 0
     THEN [s1 EXCEPT !.menuVisible = FALSE, !.renderedMenuLines = 0]
     ELSE LET s2 == [s1 EXCEPT
                       !.below = [i \in 1..ScreenRows |->
                                    IF i <= Len(fc)
                                    THEN MenuRow(fc[i], i - 1 = s1.selectedIndex)
                                    ELSE s1.below[i]],
                       !.overdrawn = s1.overdrawn \/
                                       \E i \in 1..Len(fc) : s1.below[i].kind = "menu",
                       !.wrote = TRUE]
          IN [renderInput(s2) EXCEPT !.menuVisible = TRUE,
                                     !.renderedMenuLines = Len(fc)]

renderMenu(s) ==
  LET fc == getFilteredCommands(s)
      s1 == clearBelow([s EXCEPT !.filteredCommands = fc], s.renderedMenuLines)
  IN IF Len(fc) = 0
     THEN [s1 EXCEPT !.menuVisible = FALSE, !.renderedMenuLines = 0]
     ELSE LET s2 == [s1 EXCEPT
                       !.below = [i \in 1..ScreenRows |->
                                    IF i <= Len(fc)
                                    THEN MenuRow(fc[i], i - 1 = s1.selectedIndex)
                                    ELSE s1.below[i]],
                       !.overdrawn = s1.overdrawn \/
                                       \E i \in 1..Len(fc) : s1.below[i].kind = "menu",
                       !.wrote = TRUE]
          IN [renderInput(s2) EXCEPT !.menuVisible = TRUE,
                                     !.renderedMenuLines = Len(fc)]

\* the onUpdate callback doPlay passes: it clears the screen and redraws the
\* game above the input line
onUpdate(s) ==
  [s EXCEPT !.updates = Append(s.updates, [input |-> s.input,
                                           usedIndices |-> s.usedIndices]),
            !.below = BlankScreen, !.shownInput = <<>>, !.wrote = TRUE]

\* ------------------------------------------------------- keystroke handler
\* Ctrl+C: show the notice unless it is showing
onCtrlC(s) ==
  IF ~s.ctrlCShown
  THEN LET s1 == clearMenu(s)
           s2 == [s1 EXCEPT !.below = [s1.below EXCEPT ![1] = NoticeRow],
                            !.noticeCount = s1.noticeCount + 1,
                            !.wrote = TRUE]
       IN [renderInput(s2) EXCEPT !.ctrlCShown = TRUE]
  ELSE s

\* a reset that takes the notice down but leaves the flag set
resetCtrlC_KeepsFlag(s) ==
  IF s.ctrlCShown
  THEN LET s1 == [s EXCEPT !.below = [s.below EXCEPT ![1] = BlankRow],
                           !.wrote = TRUE]
       IN renderInput(s1)
  ELSE s

\* any other key takes the notice down again
resetCtrlC(s) ==
  IF s.ctrlCShown
  THEN LET s1 == [s EXCEPT !.below = [s.below EXCEPT ![1] = BlankRow],
                           !.wrote = TRUE]
       IN [renderInput(s1) EXCEPT !.ctrlCShown = FALSE]
  ELSE s

\* an Up arrow that stops at the first entry instead of wrapping
onUpArrow_Clamps(s) ==
  IF s.isCommandMode /\ Len(s.filteredCommands) > 0
  THEN renderMenu([s EXCEPT !.selectedIndex =
                      IF s.selectedIndex <= 0 THEN 0 ELSE s.selectedIndex - 1])
  ELSE s

onUpArrow(s) ==
  IF s.isCommandMode /\ Len(s.filteredCommands) > 0
  THEN renderMenu([s EXCEPT !.selectedIndex =
                      IF s.selectedIndex <= 0
                      THEN Len(s.filteredCommands) - 1
                      ELSE s.selectedIndex - 1])
  ELSE s

onDownArrow(s) ==
  IF s.isCommandMode /\ Len(s.filteredCommands) > 0
  THEN renderMenu([s EXCEPT !.selectedIndex =
                      IF s.selectedIndex >= Len(s.filteredCommands) - 1
                      THEN 0
                      ELSE s.selectedIndex + 1])
  ELSE s

\* isCommandMode && selectedIndex >= 0 && selectedIndex < filteredCommands.length
hasSelection(s) ==
  /\ s.isCommandMode
  /\ s.selectedIndex >= 0
  /\ s.selectedIndex < Len(s.filteredCommands)

\* a Tab that always completes with the first entry of the list
onTab_FirstEntry(s) ==
  IF hasSelection(s)
  THEN LET s1 == clearMenu(s)
           s2 == [s1 EXCEPT !.input = s1.filteredCommands[1].name,
                            !.selectedIndex = 0]
       IN renderMenu(renderInput(s2))
  ELSE s

\* a Tab that completes the buffer but leaves the selection where it was
onTab_KeepsSelection(s) ==
  IF hasSelection(s)
  THEN LET s1 == clearMenu(s)
           s2 == [s1 EXCEPT !.input = s1.filteredCommands[s1.selectedIndex + 1].name]
       IN renderMenu(renderInput(s2))
  ELSE s

\* a Tab that completes the buffer but does not redraw the menu, so the
\* filtered list is still the one of the prefix
onTab_NoRefilter(s) ==
  IF hasSelection(s)
  THEN LET s1 == clearMenu(s)
           s2 == [s1 EXCEPT !.input = s1.filteredCommands[s1.selectedIndex + 1].name,
                            !.selectedIndex = 0]
       IN renderInput(s2)
  ELSE s

onTab(s) ==
  IF hasSelection(s)
  THEN LET s1 == clearMenu(s)
           s2 == [s1 EXCEPT !.input = s1.filteredCommands[s1.selectedIndex + 1].name,
                            !.selectedIndex = 0]
       IN renderMenu(renderInput(s2))
  ELSE s

\* a resolution whose flag tells whether a menu entry was selected instead of
\* whether the editor was in Command mode
resolveValue_SelectionFlag(s) ==
  [resolved |-> TRUE, input |-> toLowerCase(s.input), isCommand |-> hasSelection(s)]

\* the value the promise resolves with
resolveValue(s) ==
  [resolved |-> TRUE, input |-> toLowerCase(s.input), isCommand |-> s.isCommandMode]

\* an Enter that resolves with the buffer as typed, without the selection
onEnter_NoSubstitution(s) ==
  LET s2 == clearMenu(s)
  IN [s2 EXCEPT !.rawMode = FALSE, !.listening = FALSE,
                !.listeners = s2.listeners - 1, !.wrote = TRUE,
                !.result = resolveValue(s2)]

\* an Enter that resolves but leaves raw mode on and the listener registered
onEnter_KeepsListener(s) ==
  LET s1 == IF hasSelection(s)
            THEN [s EXCEPT !.input = s.filteredCommands[s.selectedIndex + 1].name]
            ELSE s
      s2 == clearMenu(s1)
  IN [s2 EXCEPT !.wrote = TRUE, !.result = resolveValue(s2)]

\* an Enter that substitutes the selected entry only while the menu is drawn
onEnter_VisibleOnly(s) ==
  LET s1 == IF hasSelection(s) /\ s.menuVisible
            THEN [s EXCEPT !.input = s.filteredCommands[s.selectedIndex + 1].name]
            ELSE s
      s2 == clearMenu(s1)
  IN [s2 EXCEPT !.rawMode = FALSE, !.listening = FALSE,
                !.listeners = s2.listeners - 1, !.wrote = TRUE,
                !.result = resolveValue(s2)]

onEnter(s) ==
  LET s1 == IF hasSelection(s)
            THEN [s EXCEPT !.input = s.filteredCommands[s.selectedIndex + 1].name]
            ELSE s
      s2 == clearMenu(s1)
  IN [s2 EXCEPT !.rawMode = FALSE, !.listening = FALSE,
                !.listeners = s2.listeners - 1, !.wrote = TRUE,
                !.result = resolveValue(s2)]

\* a Backspace that redraws the input line but never the menu
onBackspace_NoMenu(s, p) ==
  IF Len(s.input) > 0
  THEN LET s1 == clearMenu(s)
           lastChar == s1.input[Len(s1.input)]
           s2 == [s1 EXCEPT !.input = sliceLast(s1.input), !.selectedIndex = 0]
           wasCommandMode == s2.isCommandMode
           s3 == IF s2.input = <<>> \/ ~startsWith(s2.input, Slash)
                 THEN [s2 EXCEPT !.isCommandMode = FALSE, !.filteredCommands = <<>>]
                 ELSE s2
           s4 == IF ~wasCommandMode /\ lastChar # "/"
                 THEN onUpdate([s3 EXCEPT !.usedIndices =
                                   releaseIndex(toUpperCase(lastChar), p, s3.usedIndices)])
                 ELSE s3
       IN renderInput(s4)
  ELSE s

\* a Backspace that calls onUpdate in Command mode too
onBackspace_UpdatesInCommand(s, p) ==
  IF Len(s.input) > 0
  THEN LET s1 == clearMenu(s)
           lastChar == s1.input[Len(s1.input)]
           s2 == [s1 EXCEPT !.input = sliceLast(s1.input), !.selectedIndex = 0]
           s3 == IF s2.input = <<>> \/ ~startsWith(s2.input, Slash)
                 THEN [s2 EXCEPT !.isCommandMode = FALSE, !.filteredCommands = <<>>]
                 ELSE s2
           s4 == IF lastChar # "/"
                 THEN onUpdate([s3 EXCEPT !.usedIndices =
                                   releaseIndex(toUpperCase(lastChar), p, s3.usedIndices)])
                 ELSE s3
           s5 == renderInput(s4)
       IN IF s5.isCommandMode THEN renderMenu(s5) ELSE s5
  ELSE s

\* a Backspace without the test that leaves Command mode
onBackspace_StaysCommand(s, p) ==
  IF Len(s.input) > 0
  THEN LET s1 == clearMenu(s)
           lastChar == s1.input[Len(s1.input)]
           s3 == [s1 EXCEPT !.input = sliceLast(s1.input), !.selectedIndex = 0]
           wasCommandMode == s3.isCommandMode
           s4 == IF ~wasCommandMode /\ lastChar # "/"
                 THEN onUpdate([s3 EXCEPT !.usedIndices =
                                   releaseIndex(toUpperCase(lastChar), p, s3.usedIndices)])
                 ELSE s3
           s5 == renderInput(s4)
       IN IF s5.isCommandMode THEN renderMenu(s5) ELSE s5
  ELSE s

onBackspace(s, p) ==
  IF Len(s.input) > 0
  THEN LET s1 == clearMenu(s)
           lastChar == s1.input[Len(s1.input)]
           s2 == [s1 EXCEPT !.input = sliceLast(s1.input), !.selectedIndex = 0]
           wasCommandMode == s2.isCommandMode
           s3 == IF s2.input = <<>> \/ ~startsWith(s2.input, Slash)
                 THEN [s2 EXCEPT !.isCommandMode = FALSE, !.filteredCommands = <<>>]
                 ELSE s2
           s4 == IF ~wasCommandMode /\ lastChar # "/"
                 THEN onUpdate([s3 EXCEPT !.usedIndices =
                                   releaseIndex(toUpperCase(lastChar), p, s3.usedIndices)])
                 ELSE s3
           s5 == renderInput(s4)
       IN IF s5.isCommandMode THEN renderMenu(s5) ELSE s5
  ELSE s

\* an Escape that leaves the consumed indices in place
onEscape_KeepsConsumed(s) ==
  LET s1 == clearMenu(s)
      s2 == [s1 EXCEPT !.input = <<>>, !.isCommandMode = FALSE,
                       !.selectedIndex = 0, !.filteredCommands = <<>>]
  IN renderInput(onUpdate(s2))

\* an Escape that cancels the editor: it resolves with the cleared buffer
onEscape_Resolves(s) ==
  LET s1 == clearMenu(s)
      s2 == [s1 EXCEPT !.input = <<>>, !.isCommandMode = FALSE,
                       !.selectedIndex = 0, !.filteredCommands = <<>>,
                       !.usedIndices = <<>>]
      s3 == renderInput(onUpdate(s2))
  IN [s3 EXCEPT !.listening = FALSE, !.result = resolveValue(s3)]

onEscape(s) ==
  LET s1 == clearMenu(s)
      s2 == [s1 EXCEPT !.input = <<>>, !.isCommandMode = FALSE,
                       !.selectedIndex = 0, !.filteredCommands = <<>>,
                       !.usedIndices = <<>>]
  IN renderInput(onUpdate(s2))

\* char === "/" && input === ""
onCommandStart(s) ==
  renderMenu(renderInput([s EXCEPT !.isCommandMode = TRUE, !.input = Slash,
                                   !.selectedIndex = 0]))

\* a Command-mode append that holds letters to the pool as Word mode does
onCommandChar_Constrained(s, char) ==
  LET idx == IF IsLetterKey(char)
             THEN isLetterAvailable(char[1], pool, s.usedIndices)
             ELSE -1
  IN IF IsLetterKey(char) /\ idx = -1
     THEN s
     ELSE LET s1 == clearMenu(s)
              s2 == [s1 EXCEPT !.input = s1.input \o char, !.selectedIndex = 0,
                               !.usedIndices = IF idx # -1
                                               THEN add(s1.usedIndices, idx)
                                               ELSE s1.usedIndices]
          IN renderMenu(renderInput(s2))

\* a Command-mode append that redraws the input line but not the menu
onCommandChar_NoRefilter(s, char) ==
  LET s1 == clearMenu(s)
      s2 == [s1 EXCEPT !.input = s1.input \o char, !.selectedIndex = 0]
  IN renderInput(s2)

onCommandChar(s, char) ==
  LET s1 == clearMenu(s)
      s2 == [s1 EXCEPT !.input = s1.input \o char, !.selectedIndex = 0]
  IN renderMenu(renderInput(s2))

\* a Word-mode tail that appends the letter whether or not one is left
onWordChar_NoAvailabilityCheck(s, char, p) ==
  IF IsLetterKey(char)
  THEN LET idx == isLetterAvailable(char[1], p, s.usedIndices)
       IN renderInput(onUpdate(
            [s EXCEPT !.usedIndices = IF idx # -1 THEN add(s.usedIndices, idx)
                                      ELSE s.usedIndices,
                      !.input = s.input \o <<toUpperCase(char[1])>>]))
  ELSE s

\* a Word-mode tail without the letter test: other characters are appended
onWordChar_AppendsOthers(s, char, p) ==
  IF IsLetterKey(char)
  THEN LET idx == isLetterAvailable(char[1], p, s.usedIndices)
       IN IF idx # -1
          THEN renderInput(onUpdate(
                 [s EXCEPT !.usedIndices = add(s.usedIndices, idx),
                           !.input = s.input \o <<toUpperCase(char[1])>>]))
          ELSE s
  ELSE renderInput([s EXCEPT !.input = s.input \o char])

\* a Word-mode tail that appends the character as typed, without toUpperCase
onWordChar_KeepsCase(s, char, p) ==
  IF IsLetterKey(char)
  THEN LET idx == isLetterAvailable(char[1], p, s.usedIndices)
       IN IF idx # -1
          THEN renderInput(onUpdate(
                 [s EXCEPT !.usedIndices = add(s.usedIndices, idx),
                           !.input = s.input \o <<char[1]>>]))
          ELSE s
  ELSE s

onWordChar(s, char, p) ==
  IF IsLetterKey(char)
  THEN LET idx == isLetterAvailable(char[1], p, s.usedIndices)
       IN IF idx # -1
          THEN renderInput(onUpdate(
                 [s EXCEPT !.usedIndices = add(s.usedIndices, idx),
                           !.input = s.input \o <<toUpperCase(char[1])>>]))
          ELSE s
  ELSE s

\* a handler that starts a command on "/" whatever the buffer holds
handleKey_SlashAnywhere(s0, k, p) ==
  LET s == [s0 EXCEPT !.updates = <<>>, !.wrote = FALSE, !.overdrawn = FALSE]
  IN IF k = CtrlC THEN onCtrlC(s)
     ELSE LET s1 == resetCtrlC(s)
          IN IF k = UpArrow THEN onUpArrow(s1)
             ELSE IF k = DownArrow THEN onDownArrow(s1)
             ELSE IF k = Tab THEN onTab(s1)
             ELSE IF k = EnterCR \/ k = EnterLF THEN onEnter(s1)
             ELSE IF k = Backspace \/ k = BackspaceBS THEN onBackspace(s1, p)
             ELSE IF k = Escape /\ Len(k) = 1 THEN onEscape(s1)
             ELSE IF k = Slash THEN onCommandStart(s1)
             ELSE IF s1.isCommandMode THEN onCommandChar(s1, k)
             ELSE onWordChar(s1, k, p)

handleKey(s0, k, p) ==
  LET s == [s0 EXCEPT !.updates = <<>>, !.wrote = FALSE, !.overdrawn = FALSE]
  IN IF k = CtrlC THEN onCtrlC(s)
     ELSE LET s1 == resetCtrlC(s)
          IN IF k = UpArrow THEN onUpArrow(s1)
             ELSE IF k = DownArrow THEN onDownArrow(s1)
             ELSE IF k = Tab THEN onTab(s1)
             ELSE IF k = EnterCR \/ k = EnterLF THEN onEnter(s1)
             ELSE IF k = Backspace \/ k = BackspaceBS THEN onBackspace(s1, p)
             ELSE IF k = Escape /\ Len(k) = 1 THEN onEscape(s1)
             ELSE IF k = Slash /\ s1.input = <<>> THEN onCommandStart(s1)
             ELSE IF s1.isCommandMode THEN onCommandChar(s1, k)
             ELSE onWordChar(s1, k, p)

\* ------------------------------------------------------------ state machine
\* doPlay has loaded the puzzle and awaits its first interactiveInput call:
\* new Promise(...): the closure variables, the listener, the first renderInput
Init ==
  /\ pool \in Pools
  /\ input = <<>>
  /\ isCommandMode = FALSE
  /\ selectedIndex = 0
  /\ filteredCommands = <<>>
  /\ menuVisible = FALSE
  /\ renderedMenuLines = 0
  /\ usedIndices = <<>>
  /\ ctrlCShown = FALSE
  /\ listening = TRUE
  /\ result = NoResult
  /\ below = BlankScreen
  /\ shownInput = <<>>
  /\ updates = <<>>
  /\ wrote = TRUE
  /\ noticeCount = 0
  /\ overdrawn = FALSE
  /\ rawMode = TRUE
  /\ listeners = 1
  /\ key = <<>>
  /\ handled = TRUE
  /\ pc = "editing"
  /\ inFlight = "none"
  /\ done = FALSE
  /\ scramble \in {str \in Scrambles : letterPoolOf(str) = pool}
  /\ currentScramble = scramble
  /\ attempts = 0
  /\ guessHistory = <<>>
  /\ stats = DEFAULT_STATS
  /\ calls = <<>>

\* the key would be appended to a Command-mode buffer
Appends(k) ==
  /\ isCommandMode
  /\ k \in CharKeys
  /\ ~(k = Slash /\ input = <<>>)

\* stdin emits a "data" event carrying one keystroke
KeyPressed(k) ==
  /\ UNCHANGED statsVars
  /\ listening
  /\ handled
  /\ Appends(k) => Len(input) < MaxBuf
  /\ (k = CtrlC /\ ~ctrlCShown) => noticeCount < MaxNotices
  /\ key' = k
  /\ handled' = FALSE
  /\ UNCHANGED <<pool, input, isCommandMode, selectedIndex, filteredCommands,
                 menuVisible, renderedMenuLines, usedIndices, ctrlCShown,
                 listening, result, below, shownInput, updates, wrote,
                 noticeCount, overdrawn, rawMode, listeners>>
  /\ UNCHANGED gameVars

\* a listener whose Escape branch also turns the shared pool array around
HandleKey_ReordersPool ==
  /\ UNCHANGED statsVars
  /\ listening
  /\ ~handled
  /\ LET t == handleKey(State, key, pool)
     IN /\ input' = t.input
        /\ isCommandMode' = t.isCommandMode
        /\ selectedIndex' = t.selectedIndex
        /\ filteredCommands' = t.filteredCommands
        /\ menuVisible' = t.menuVisible
        /\ renderedMenuLines' = t.renderedMenuLines
        /\ usedIndices' = t.usedIndices
        /\ ctrlCShown' = t.ctrlCShown
        /\ listening' = t.listening
        /\ result' = t.result
        /\ below' = t.below
        /\ shownInput' = t.shownInput
        /\ updates' = t.updates
        /\ wrote' = t.wrote
        /\ noticeCount' = t.noticeCount
        /\ overdrawn' = t.overdrawn
        /\ rawMode' = t.rawMode
        /\ listeners' = t.listeners
  /\ handled' = TRUE
  /\ pool' = IF key = Escape
             THEN [i \in DOMAIN pool |-> pool[Len(pool) + 1 - i]]
             ELSE pool
  /\ UNCHANGED key
  /\ UNCHANGED gameVars

\* the listener runs to completion on the delivered keystroke
HandleKey ==
  /\ UNCHANGED statsVars
  /\ listening
  /\ ~handled
  /\ LET t == handleKey(State, key, pool)
     IN /\ input' = t.input
        /\ isCommandMode' = t.isCommandMode
        /\ selectedIndex' = t.selectedIndex
        /\ filteredCommands' = t.filteredCommands
        /\ menuVisible' = t.menuVisible
        /\ renderedMenuLines' = t.renderedMenuLines
        /\ usedIndices' = t.usedIndices
        /\ ctrlCShown' = t.ctrlCShown
        /\ listening' = t.listening
        /\ result' = t.result
        /\ below' = t.below
        /\ shownInput' = t.shownInput
        /\ updates' = t.updates
        /\ wrote' = t.wrote
        /\ noticeCount' = t.noticeCount
        /\ overdrawn' = t.overdrawn
        /\ rawMode' = t.rawMode
        /\ listeners' = t.listeners
  /\ handled' = TRUE
  /\ UNCHANGED <<pool, key>>
  /\ UNCHANGED gameVars

Next ==
  \/ \E k \in Keys : KeyPressed(k)
  \/ HandleKey

Spec == Init /\ [][Next]_vars

TypeOK ==
  /\ pool \in Pools
  /\ isCommandMode \in BOOLEAN
  /\ selectedIndex \in 0..(Len(COMMANDS) - 1)
  /\ renderedMenuLines \in 0..Len(COMMANDS)
  /\ key \in Keys \cup {<<>>}
  /\ noticeCount \in 0..MaxNotices

\* ---------------------------------------------------------------- game loop
\* the closure variables of interactiveInput
closureVars == <<input, isCommandMode, selectedIndex, filteredCommands,
                 menuVisible, renderedMenuLines, usedIndices, ctrlCShown,
                 listening, result, shownInput, updates, wrote, noticeCount,
                 overdrawn>>

\* an editor whose buffer, mode and consumed indices are kept from one call to
\* the next instead of being created by the call
newEditor_KeepsBuffer(rows) ==
  [input |-> input, isCommandMode |-> isCommandMode, selectedIndex |-> 0,
   filteredCommands |-> <<>>, menuVisible |-> FALSE, renderedMenuLines |-> 0,
   usedIndices |-> usedIndices, ctrlCShown |-> FALSE, listening |-> TRUE,
   result |-> NoResult, below |-> rows, shownInput |-> input,
   updates |-> <<>>, wrote |-> TRUE, noticeCount |-> 0, overdrawn |-> FALSE,
   rawMode |-> TRUE, listeners |-> listeners + 1]

\* the call interactiveInput(letterPool, onUpdate): a new closure, raw mode,
\* the listener, the first renderInput; rows is what the terminal shows
\* below the new input line
newEditor(rows) ==
  [input |-> <<>>, isCommandMode |-> FALSE, selectedIndex |-> 0,
   filteredCommands |-> <<>>, menuVisible |-> FALSE, renderedMenuLines |-> 0,
   usedIndices |-> <<>>, ctrlCShown |-> FALSE, listening |-> TRUE,
   result |-> NoResult, below |-> rows, shownInput |-> <<>>,
   updates |-> <<>>, wrote |-> TRUE, noticeCount |-> 0, overdrawn |-> FALSE,
   rawMode |-> TRUE, listeners |-> listeners + 1]

\* the next iteration of while (!done): doPlay suspends at a new editor
StartEditor(rows) ==
  LET t == newEditor(rows)
  IN /\ input' = t.input
     /\ isCommandMode' = t.isCommandMode
     /\ selectedIndex' = t.selectedIndex
     /\ filteredCommands' = t.filteredCommands
     /\ menuVisible' = t.menuVisible
     /\ renderedMenuLines' = t.renderedMenuLines
     /\ usedIndices' = t.usedIndices
     /\ ctrlCShown' = t.ctrlCShown
     /\ listening' = t.listening
     /\ result' = t.result
     /\ below' = t.below
     /\ shownInput' = t.shownInput
     /\ updates' = t.updates
     /\ wrote' = t.wrote
     /\ noticeCount' = t.noticeCount
     /\ overdrawn' = t.overdrawn
     /\ rawMode' = t.rawMode
     /\ listeners' = t.listeners
     /\ pc' = "editing"

\* str.split(" ")[0]
RECURSIVE firstWord(_)
firstWord(str) ==
  IF str = <<>> \/ Head(str) = " " THEN <<>>
  ELSE <<Head(str)>> \o firstWord(Tail(str))

\* answer.startsWith("/") ? answer.slice(1).split(" ")[0] : answer
commandOf(answer) ==
  IF startsWith(answer, Slash)
  THEN firstWord(SubSeq(answer, 2, Len(answer)))
  ELSE answer

\* the rows below the input line once doPlay has cleared the screen and
\* redrawn the game, with a message written under the input line
rowsWith(what) == [BlankScreen EXCEPT ![1] = MessageRow(what)]

\* a loop that does not wait for the editor: it goes round on an answer that
\* is not there yet
EditorReturned_NoAwait ==
  /\ UNCHANGED statsVars
  /\ UNCHANGED <<attempts, guessHistory>>
  /\ pc = "editing"
  /\ StartEditor(BlankScreen)
  /\ UNCHANGED <<pool, key, handled, inFlight, done, scramble, currentScramble>>

\* a loop that sends the hint and guess requests without awaiting them
EditorReturned_FireAndForget ==
  /\ UNCHANGED statsVars
  /\ UNCHANGED <<attempts, guessHistory>>
  /\ pc = "editing"
  /\ result.resolved
  /\ inFlight' = IF result.isCommand THEN "hint" ELSE "guess"
  /\ StartEditor(BlankScreen)
  /\ UNCHANGED <<pool, key, handled, done, scramble, currentScramble>>

\* a loop that treats as commands only what the registry lists: any other
\* answer, "/" or not, is posted as a guess
EditorReturned_GuessesUnknown ==
  /\ UNCHANGED statsVars
  /\ UNCHANGED <<attempts, guessHistory>>
  /\ pc = "editing"
  /\ result.resolved
  /\ UNCHANGED <<key, handled, done, scramble, pool, currentScramble>>
  /\ IF result.input = <<>>
     THEN /\ StartEditor(BlankScreen)
          /\ UNCHANGED inFlight
     ELSE IF \E i \in DOMAIN COMMANDS : COMMANDS[i].name = result.input
     THEN /\ pc' = "returned"
          /\ UNCHANGED closureVars
          /\ UNCHANGED <<inFlight, below, rawMode, listeners>>
     ELSE /\ pc' = "guess"
          /\ inFlight' = "guess"
          /\ UNCHANGED closureVars
          /\ UNCHANGED <<below, rawMode, listeners>>

\* the editor has resolved: doPlay runs from the await of interactiveInput to
\* its next await, or to its end
EditorReturned ==
  /\ UNCHANGED statsVars
  /\ UNCHANGED <<attempts, guessHistory>>
  /\ pc = "editing"
  /\ result.resolved
  /\ UNCHANGED <<key, handled, done, scramble>>
  /\ LET answer == result.input
         isCommand == result.isCommand
         cmd == commandOf(answer)
     IN IF answer = <<>>
        THEN /\ StartEditor(BlankScreen)
             /\ UNCHANGED <<pool, currentScramble, inFlight>>
        ELSE IF isCommand \/ startsWith(answer, Slash)
        THEN IF cmd \in {<<"h","e","l","p">>, <<"h">>}
             THEN /\ pc' = "help"
                  /\ rawMode' = TRUE
                  /\ below' = BlankScreen
                  /\ UNCHANGED closureVars
                  /\ UNCHANGED <<pool, currentScramble, inFlight, listeners>>
             ELSE IF cmd = <<"h","i","n","t">>
             THEN /\ pc' = "hint"
                  /\ inFlight' = "hint"
                  /\ UNCHANGED closureVars
                  /\ UNCHANGED <<pool, currentScramble, below, rawMode, listeners>>
             ELSE IF cmd \in {<<"e","x","i","t">>, <<"b","a","c","k">>,
                              <<"m","e","n","u">>}
             THEN /\ pc' = "returned"
                  /\ UNCHANGED closureVars
                  /\ UNCHANGED <<pool, currentScramble, inFlight, below,
                                 rawMode, listeners>>
             ELSE IF cmd \in {<<"q","u","i","t">>, <<"q">>}
             THEN /\ pc' = "exited"
                  /\ UNCHANGED closureVars
                  /\ UNCHANGED <<pool, currentScramble, inFlight, below,
                                 rawMode, listeners>>
             ELSE IF cmd \in {<<"s","h","u","f","f","l","e">>, <<"s">>}
             THEN /\ currentScramble' \in shuffled(currentScramble)
                  /\ pool' = letterPoolOf(currentScramble')
                  /\ StartEditor(rowsWith("shuffled"))
                  /\ UNCHANGED inFlight
             ELSE /\ StartEditor(rowsWith("unknown"))
                  /\ UNCHANGED <<pool, currentScramble, inFlight>>
        ELSE /\ pc' = "guess"
             /\ inFlight' = "guess"
             /\ UNCHANGED closureVars
             /\ UNCHANGED <<pool, currentScramble, below, rawMode, listeners>>

\* the key /help waits for: stdin.once("data") takes it and the loop goes on
HelpKeyPressed(k) ==
  /\ UNCHANGED statsVars
  /\ UNCHANGED <<attempts, guessHistory>>
  /\ pc = "help"
  /\ key' = k
  /\ handled' = TRUE
  /\ StartEditor(BlankScreen)
  /\ UNCHANGED <<pool, inFlight, done, scramble, currentScramble>>

\* the hint request has come back: its text is printed, the loop goes on
HintReturned ==
  /\ UNCHANGED statsVars
  /\ UNCHANGED <<attempts, guessHistory>>
  /\ pc = "hint"
  /\ inFlight = "hint"
  /\ inFlight' = "none"
  /\ StartEditor(BlankScreen)
  /\ UNCHANGED <<pool, key, handled, done, scramble, currentScramble>>

\* result.data.attempts is undefined
NoAttempts == -1

\* what the model keeps of the server's reply to a guess: status >= 500,
\* data.done, marks.length > 0, !accepted && !isAltAnagram, data.attempts
Responses ==
  [serverError : BOOLEAN, done : BOOLEAN, marked : BOOLEAN, counted : BOOLEAN,
   attempts : {NoAttempts} \cup 1..MaxAttempts]

\* the replies that leave attempts and the guess history as they are
GameResponses ==
  {r \in Responses : ~r.marked /\ ~r.counted /\ r.attempts = NoAttempts}

\* attempts after the reply: result.data.attempts ?? (attempts + 1) for a
\* wrong guess
attemptsAfter(r) ==
  IF r.counted
  THEN IF r.attempts # NoAttempts THEN r.attempts ELSE attempts + 1
  ELSE attempts

\* the guess request has come back: a server error leaves the loop, a
\* finished game goes to the post-game menu, otherwise the loop goes on
GuessReturned(r) ==
  /\ UNCHANGED statsVars
  /\ pc = "guess"
  /\ inFlight = "guess"
  /\ inFlight' = "none"
  /\ UNCHANGED <<pool, key, handled, scramble, currentScramble>>
  /\ attemptsAfter(r) <= MaxAttempts
  /\ r.marked => Len(guessHistory) < MaxHistory
  /\ IF r.serverError
     THEN /\ pc' = "returned"
          /\ UNCHANGED <<done, attempts, guessHistory>>
          /\ UNCHANGED closureVars
          /\ UNCHANGED <<below, rawMode, listeners>>
     ELSE /\ guessHistory' = IF r.marked
                             THEN Append(guessHistory, result.input)
                             ELSE guessHistory
          /\ attempts' = attemptsAfter(r)
          /\ done' = r.done
          /\ IF r.done
             THEN /\ pc' = "postGame"
                  /\ UNCHANGED closureVars
                  /\ UNCHANGED <<below, rawMode, listeners>>
             ELSE StartEditor(BlankScreen)

\* stdin emits a keystroke while no listener is registered: nothing runs
KeyLost(k) ==
  /\ UNCHANGED statsVars
  /\ pc \in {"hint", "guess"}
  /\ listeners = 0
  /\ key' = k
  /\ handled' = TRUE
  /\ UNCHANGED closureVars
  /\ UNCHANGED <<pool, below, rawMode, listeners>>
  /\ UNCHANGED gameVars

\* the keystrokes of a game: letters, "/" and Down to pick a command, Enter,
\* Backspace, Escape and Ctrl-C
GameKeys == {<<"a">>, <<"B">>, Slash, DownArrow, EnterCR, Backspace, Escape,
             CtrlC}

GameNext ==
  \/ \E k \in GameKeys : KeyPressed(k)
  \/ HandleKey
  \/ EditorReturned
  \/ \E k \in GameKeys : HelpKeyPressed(k)
  \/ HintReturned
  \/ \E r \in GameResponses : GuessReturned(r)
  \/ \E k \in GameKeys : KeyLost(k)

\* doPlay from its first editor to its end
GameSpec == Init /\ [][GameNext]_vars

\* ------------------------------------------------ the loop on any submission
\* buffers a player may have typed when the loop is looked at: nothing, the
\* names doPlay answers to that the registry does not list, short forms, a
\* registry name, and names neither knows
LoopBuffers ==
  { <<>>,
    <<"/","m","e","n","u">>, <<"/","b","a","c","k">>, <<"/","e","x","i","t">>,
    <<"/","q">>, <<"/","s">>, <<"/","h","i">>, <<"/","1">>, <<"/","z"," ","q">> }

\* the closure of a first interactiveInput call before any keystroke
firstEditor ==
  [input |-> <<>>, isCommandMode |-> FALSE, selectedIndex |-> 0,
   filteredCommands |-> <<>>, menuVisible |-> FALSE, renderedMenuLines |-> 0,
   usedIndices |-> <<>>, ctrlCShown |-> FALSE, listening |-> TRUE,
   result |-> NoResult, below |-> BlankScreen, shownInput |-> <<>>,
   updates |-> <<>>, wrote |-> TRUE, noticeCount |-> 0, overdrawn |-> FALSE,
   rawMode |-> TRUE, listeners |-> 1]

\* the editor after the listener has handled the characters of str, one
\* keystroke each
RECURSIVE typed(_, _, _)
typed(s, str, p) ==
  IF str = <<>> THEN s
  ELSE typed(handleKey(s, <<Head(str)>>, p), Tail(str), p)

\* doPlay at its first editor, with one of the buffers typed into it
LoopInit ==
  /\ pool \in Pools
  /\ \E buf \in LoopBuffers :
       LET t == typed(firstEditor, buf, pool)
       IN /\ input = t.input
          /\ isCommandMode = t.isCommandMode
          /\ selectedIndex = t.selectedIndex
          /\ filteredCommands = t.filteredCommands
          /\ menuVisible = t.menuVisible
          /\ renderedMenuLines = t.renderedMenuLines
          /\ usedIndices = t.usedIndices
          /\ ctrlCShown = t.ctrlCShown
          /\ listening = t.listening
          /\ result = t.result
          /\ below = t.below
          /\ shownInput = t.shownInput
          /\ updates = t.updates
          /\ wrote = t.wrote
          /\ noticeCount = t.noticeCount
          /\ overdrawn = t.overdrawn
          /\ rawMode = t.rawMode
          /\ listeners = t.listeners
          /\ key = IF buf = <<>> THEN <<>> ELSE <<buf[Len(buf)]>>
  /\ handled = TRUE
  /\ pc = "editing"
  /\ inFlight = "none"
  /\ done = FALSE
  /\ scramble \in {str \in Scrambles : letterPoolOf(str) = pool}
  /\ currentScramble = scramble
  /\ attempts = 0
  /\ guessHistory = <<>>
  /\ stats = DEFAULT_STATS
  /\ calls = <<>>

\* the keystrokes that make the submissions after the first: a word, a
\* command picked from the menu, nothing
LoopKeys == {<<"a">>, Slash, EnterCR}

LoopNext ==
  \/ \E k \in LoopKeys : KeyPressed(k)
  \/ HandleKey
  \/ EditorReturned
  \/ \E k \in LoopKeys : HelpKeyPressed(k)
  \/ HintReturned
  \/ \E r \in Responses : GuessReturned(r)

\* the loop of doPlay from any first submission, with every reply
LoopSpec == LoopInit /\ [][LoopNext]_vars

\* --------------------------------------------------------------- statistics
\* the puzzle dates the calls are made with
DateKeys == {"d1", "d2"}

\* the attempts the calls are made with: none recorded, one, more than five
StatsAttempts == {0, 1, 6}

\* Math.min
Min(a, b) == IF a <= b THEN a ELSE b

\* Math.max
Max(a, b) == IF a >= b THEN a ELSE b

\* an updateStats without the test of lastPlayedDate
updateStats_NoDateCheck(st, won, att, dateKey) ==
  LET s1 == [st EXCEPT !.gamesPlayed = st.gamesPlayed + 1,
                       !.lastPlayedDate = dateKey,
                       !.lastPlayedWon = won,
                       !.lastPlayedAttempts = att]
  IN IF won
     THEN [s1 EXCEPT !.gamesWon = s1.gamesWon + 1,
                     !.currentStreak = s1.currentStreak + 1,
                     !.maxStreak = Max(s1.maxStreak, s1.currentStreak + 1)]
     ELSE [s1 EXCEPT !.currentStreak = 0]

\* the stats file after updateStats(won, attempts, dateKey) on a file that
\* holds st; guessDistribution[-1], set when attempts is 0, is not an array
\* element and JSON.stringify leaves it out
updateStats(st, won, att, dateKey) ==
  IF st.lastPlayedDate = dateKey THEN st
  ELSE LET s1 == [st EXCEPT !.gamesPlayed = st.gamesPlayed + 1,
                            !.lastPlayedDate = dateKey,
                            !.lastPlayedWon = won,
                            !.lastPlayedAttempts = att]
           idx == Min(att - 1, 4)
       IN IF won
          THEN [s1 EXCEPT !.gamesWon = s1.gamesWon + 1,
                          !.currentStreak = s1.currentStreak + 1,
                          !.maxStreak = Max(s1.maxStreak, s1.currentStreak + 1),
                          !.guessDistribution =
                             IF idx >= 0
                             THEN [s1.guessDistribution EXCEPT
                                     ![idx + 1] = s1.guessDistribution[idx + 1] + 1]
                             ELSE s1.guessDistribution]
          ELSE [s1 EXCEPT !.currentStreak = 0]

\* everything but the stats file and the record of the calls
playVars == <<pool, input, isCommandMode, selectedIndex, filteredCommands,
              menuVisible, renderedMenuLines, usedIndices, ctrlCShown,
              listening, result, below, shownInput, updates, wrote,
              noticeCount, overdrawn, rawMode, listeners, key, handled>>

\* showPostGameMenu: a finished game is recorded
PostGameMenu(won, att, dateKey) ==
  /\ Len(calls) < MaxCalls
  /\ stats' = updateStats(stats, won, att, dateKey)
  /\ calls' = Append(calls, dateKey)
  /\ UNCHANGED playVars
  /\ UNCHANGED gameVars

\* mainLoop's sync with a session the server reports as done: a date other
\* than the last one recorded goes through updateStats, a win on the same
\* date is written into the file directly
ServerSync(win, att, serverDateKey) ==
  /\ IF stats.lastPlayedDate # serverDateKey
     THEN /\ Len(calls) < MaxCalls
          /\ stats' = updateStats(stats, win, att, serverDateKey)
          /\ calls' = Append(calls, serverDateKey)
     ELSE /\ win /\ ~stats.lastPlayedWon
          /\ stats' = [stats EXCEPT
                         !.lastPlayedWon = TRUE,
                         !.lastPlayedAttempts =
                            IF att # 0 THEN att ELSE stats.lastPlayedAttempts]
          /\ UNCHANGED calls
  /\ UNCHANGED playVars
  /\ UNCHANGED gameVars

StatsNext ==
  \/ \E won \in BOOLEAN, att \in StatsAttempts, d \in DateKeys :
       PostGameMenu(won, att, d)
  \/ \E win \in BOOLEAN, att \in StatsAttempts, d \in DateKeys :
       ServerSync(win, att, d)

\* the stats file over any sequence of finished games and syncs
StatsSpec == Init /\ [][StatsNext]_vars

\* ------------------------------------------------- the tracker on any state
\* Word-mode buffers, among them ones holding a letter no pool holds
DriftBuffers == UNION {[1..n -> {"A", "B", "H"}] : n \in 0..MaxPool}

\* the Consumed Sets over a pool, in every insertion order
DriftSets(p) ==
  {u \in UNION {[1..n -> 0..(Len(p) - 1)] : n \in 0..Len(p)} :
     \A i, j \in DOMAIN u : i # j => u[i] # u[j]}

\* an editor in Word mode whose buffer and Consumed Set are any pair, in
\* step with each other or not
DriftInit ==
  /\ pool \in Pools
  /\ input \in DriftBuffers
  /\ isCommandMode = FALSE
  /\ selectedIndex = 0
  /\ filteredCommands = <<>>
  /\ menuVisible = FALSE
  /\ renderedMenuLines = 0
  /\ usedIndices \in DriftSets(pool)
  /\ ctrlCShown = FALSE
  /\ listening = TRUE
  /\ result = NoResult
  /\ below = BlankScreen
  /\ shownInput = input
  /\ updates = <<>>
  /\ wrote = TRUE
  /\ noticeCount = 0
  /\ overdrawn = FALSE
  /\ rawMode = TRUE
  /\ listeners = 1
  /\ key = <<>>
  /\ handled = TRUE
  /\ pc = "editing"
  /\ inFlight = "none"
  /\ done = FALSE
  /\ scramble \in {str \in Scrambles : letterPoolOf(str) = pool}
  /\ currentScramble = scramble
  /\ attempts = 0
  /\ guessHistory = <<>>
  /\ stats = DEFAULT_STATS
  /\ calls = <<>>

\* the keystrokes that use the tracker: a letter and Backspace
DriftKeys == {<<"a">>, Backspace}

DriftNext ==
  \/ \E k \in DriftKeys : KeyPressed(k)
  \/ HandleKey

\* the Word-mode letter and Backspace branches from any buffer and Consumed Set
DriftSpec == DriftInit /\ [][DriftNext]_vars

\* ------------------------------------------------------------- properties
\* the step in which handleKey runs on the delivered keystroke
Handling == ~handled /\ handled'

IsEnter(k) == k = EnterCR \/ k = EnterLF
IsBackspace(k) == k = Backspace \/ k = BackspaceBS

\* the set of consumed indices
Consumed(used) == Range(used)

\* occurrences of a character in a string
Occurrences(str, c) == Cardinality({i \in DOMAIN str : str[i] = c})

\* consumed indices whose pool letter is c
ConsumedOf(used, p, c) == {i \in Consumed(used) : toUpperCase(p[i + 1]) = c}

\* pool positions that hold the letter typed by key k and are not consumed
FreeFor(k) ==
  {i \in 0..(Len(pool) - 1) :
     i \notin Consumed(usedIndices) /\ toUpperCase(pool[i + 1]) = toUpperCase(k[1])}

\* C1: in Word mode the Consumed Set has as many indices as the buffer has
\* characters, and the consumed indices are distinct valid pool positions.
C1_ConsumedMatchesBuffer ==
  ~isCommandMode =>
    /\ Cardinality(Consumed(usedIndices)) = Len(input)
    /\ Len(usedIndices) = Len(input)
    /\ Consumed(usedIndices) \subseteq 0..(Len(pool) - 1)

\* a Backspace has just shortened a three-letter Word-mode buffer to two
C1_Witness ==
  /\ handled /\ IsBackspace(key)
  /\ ~isCommandMode /\ Len(input) = 2 /\ Len(updates) = 1
  /\ Cardinality(Consumed(usedIndices)) = 2

\* C2: with k copies of a letter L in the pool, a Backspace that removes an L
\* from a buffer holding k copies frees exactly one consumed L index; an L
\* keystroke succeeds while fewer than k copies are in the buffer and is
\* rejected once k are; the buffer never holds more than k copies.
C2_DuplicateLetter ==
  [][Handling /\ ~isCommandMode =>
       \A L \in PoolLetters :
         LET k == Occurrences(pool, L)
         IN /\ Occurrences(input', L) <= k
            /\ (IsBackspace(key) /\ Occurrences(input, L) = k /\ k > 0
                  /\ input[Len(input)] = L) =>
                 /\ Consumed(usedIndices') \subseteq Consumed(usedIndices)
                 /\ Cardinality(Consumed(usedIndices) \ Consumed(usedIndices')) = 1
                 /\ Cardinality(ConsumedOf(usedIndices', pool, L)) = k - 1
            /\ (IsLetterKey(key) /\ toUpperCase(key[1]) = L
                  /\ Occurrences(input, L) < k) =>
                 /\ input' = input \o <<L>>
                 /\ Cardinality(ConsumedOf(usedIndices', pool, L))
                      = Occurrences(input, L) + 1
            /\ (IsLetterKey(key) /\ toUpperCase(key[1]) = L
                  /\ Occurrences(input, L) = k) =>
                 /\ input' = input
                 /\ usedIndices' = usedIndices]_vars

\* pool AAB: A, A, Backspace (index 0 is freed), A again (index 0 is taken
\* again, after index 1)
C2_Witness ==
  /\ pool = <<"A", "A", "B">>
  /\ handled /\ key = <<"a">>
  /\ ~isCommandMode /\ input = <<"A", "A">>
  /\ usedIndices = <<1, 0>>

\* C3: a Word-mode letter keystroke with no unconsumed pool index for that
\* letter changes neither buffer, Consumed Set nor mode, and the editor stays
\* active.
C3_UnavailableLetterIgnored ==
  [][Handling /\ ~isCommandMode /\ IsLetterKey(key) /\ FreeFor(key) = {} =>
       /\ input' = input
       /\ usedIndices' = usedIndices
       /\ isCommandMode' = isCommandMode
       /\ listening'
       /\ result' = NoResult]_vars

\* the letter h, absent from every pool, was typed after a first letter
C3_Witness ==
  /\ handled /\ key = <<"h">>
  /\ ~isCommandMode /\ Len(input) = 1 /\ Len(usedIndices) = 1
  /\ listening /\ updates = <<>>

\* what C4 says of one step
C4_Step ==
  /\ (~isCommandMode /\ isCommandMode') =>
       (Handling /\ key = Slash /\ input = <<>> /\ input' = Slash)
  /\ (isCommandMode /\ ~isCommandMode') =>
       (/\ Handling
        /\ \/ (/\ IsBackspace(key)
               /\ input' = sliceLast(input)
               /\ (input' = <<>> \/ ~startsWith(input', Slash)))
           \/ key = Escape)

\* C4: the mode starts as Word; it becomes Command only when "/" is handled
\* on an empty buffer (which then is "/"), and becomes Word again only on a
\* Backspace that leaves the buffer empty or not starting with "/", or on
\* Escape.
C4_ModeTransitions ==
  /\ ~isCommandMode
  /\ [][C4_Step]_vars

\* "/" has just been handled on an empty buffer: Command mode, all commands listed
C4_Witness ==
  /\ handled /\ key = Slash
  /\ isCommandMode /\ input = Slash
  /\ Len(filteredCommands) = Len(COMMANDS)
  /\ below[1].kind = "menu"

\* C5: "/" typed in Word mode on a non-empty buffer is ignored: buffer,
\* Consumed Set and mode stay as they are.
C5_SlashMidWordIgnored ==
  [][Handling /\ key = Slash /\ ~isCommandMode /\ input # <<>> =>
       /\ input' = input
       /\ usedIndices' = usedIndices
       /\ ~isCommandMode']_vars

\* "/" was typed after two letters
C5_Witness ==
  /\ handled /\ key = Slash
  /\ ~isCommandMode /\ Len(input) = 2 /\ Len(usedIndices) = 2
  /\ updates = <<>>

\* C6: Escape leaves buffer "", an empty Consumed Set, Selection Index 0 and
\* mode Word, and the editor stays active.
C6_EscapeResets ==
  [][Handling /\ key = Escape =>
       /\ input' = <<>>
       /\ usedIndices' = <<>>
       /\ selectedIndex' = 0
       /\ ~isCommandMode'
       /\ listening'
       /\ result' = NoResult]_vars

\* Escape has been handled: one onUpdate call with the cleared buffer
C6_Witness ==
  /\ handled /\ key = Escape
  /\ input = <<>> /\ usedIndices = <<>> /\ ~isCommandMode
  /\ updates = <<[input |-> <<>>, usedIndices |-> <<>>]>>
  /\ listening

\* the registry has no entry whose name starts with str
NoMatch(str) == \A i \in DOMAIN COMMANDS : ~startsWith(COMMANDS[i].name, str)

\* str holds no upper-case letter
NoUpperCase(str) == \A i \in DOMAIN str : str[i] \notin Range(UpperLetters)

\* the buffer Enter leaves: the selected entry's name in Command mode with a
\* selection, else the buffer as it is
BufferOnEnter ==
  IF isCommandMode /\ selectedIndex \in 0..(Len(filteredCommands) - 1)
  THEN filteredCommands[selectedIndex + 1].name
  ELSE input

\* C7 as stated: Enter resolves with finalBuffer equal to the buffer content
\* (after the selection replaced it) and wasCommand equal to the mode.
C7_ResolvesWithBuffer ==
  result.resolved =>
    /\ result.input = input
    /\ result.isCommand = isCommandMode

\* C7 as amended: on Enter the buffer becomes the selected entry's name when
\* the mode is Command and the Selection Index points into the Filtered
\* List, and the editor resolves with finalBuffer equal to the lower-cased
\* buffer and wasCommand equal to (mode = Command).
C7_ResolvesWithLowerCasedBuffer ==
  [][Handling /\ IsEnter(key) =>
       /\ input' = BufferOnEnter
       /\ isCommandMode' = isCommandMode
       /\ result'.resolved
       /\ Len(result'.input) = Len(input')
       /\ \A i \in DOMAIN input' :
            /\ toUpperCase(result'.input[i]) = toUpperCase(input'[i])
            /\ result'.input[i] \notin Range(UpperLetters)
       /\ result'.isCommand = isCommandMode]_vars

\* Enter on "/h" with the selection moved down to /hint
C7_Witness ==
  /\ handled /\ IsEnter(key)
  /\ result.resolved /\ result.isCommand
  /\ result.input = <<"/","h","i","n","t">>
  /\ shownInput = <<"/","h">>

\* C8 as stated: Enter in Command mode on a buffer that matches no registry
\* command resolves with exactly the typed string.
C8_UnknownCommandLiteral ==
  (result.resolved /\ result.isCommand /\ NoMatch(input)) =>
    result.input = input

\* C8 as amended: Enter in Command mode on a buffer that matches no registry
\* command leaves the buffer as typed and resolves with it lower-cased; a
\* typed string without upper-case letters is resolved unaltered.
C8_UnknownCommandLowerCased ==
  [][Handling /\ IsEnter(key) /\ isCommandMode /\ NoMatch(input) =>
       /\ input' = input
       /\ result'.resolved /\ result'.isCommand
       /\ result'.input = toLowerCase(input)
       /\ NoUpperCase(input) => result'.input = input]_vars

\* "/B" was typed and submitted
C8_Witness ==
  /\ handled /\ IsEnter(key)
  /\ result.resolved /\ result.isCommand
  /\ input = <<"/", "B">>
  /\ result.input = <<"/", "b">>

\* C9: the editor is resolved exactly when an Enter keystroke has been
\* handled: no other keystroke resolves it, and Enter resolves it from every
\* state.
C9_ResolvesOnlyOnEnter ==
  /\ result.resolved <=> (handled /\ IsEnter(key))
  /\ result.resolved <=> ~listening
  /\ result.resolved <=> result # NoResult

\* Enter (as a line feed) resolved a two-letter word
C9_Witness ==
  /\ result.resolved /\ ~result.isCommand
  /\ Len(result.input) = 2
  /\ key = EnterLF /\ ~listening

\* C10: Ctrl-C never resolves the editor and leaves buffer, mode, Consumed
\* Set, Selection Index and Filtered List unchanged.
C10_CtrlCChangesNothing ==
  [][Handling /\ key = CtrlC =>
       /\ input' = input
       /\ isCommandMode' = isCommandMode
       /\ usedIndices' = usedIndices
       /\ selectedIndex' = selectedIndex
       /\ filteredCommands' = filteredCommands
       /\ listening'
       /\ result' = NoResult]_vars

\* Ctrl-C was handled in Command mode: the notice replaced the menu, the
\* Filtered List and the moved selection are still there
C10_Witness ==
  /\ handled /\ key = CtrlC
  /\ isCommandMode /\ ctrlCShown
  /\ Len(filteredCommands) > 1 /\ selectedIndex = 1
  /\ renderedMenuLines = 0 /\ below[1] = NoticeRow

\* C11 as stated: the Ctrl-C notice is written at most once in a session.
C11_NoticeAtMostOnce == noticeCount <= 1

\* C11 as amended: the notice is written once per run of consecutive Ctrl-C
\* keystrokes: a Ctrl-C writes it exactly when it is not showing, the notice
\* is showing exactly after a Ctrl-C, and any other key takes it down, so
\* that the next Ctrl-C writes it again.
C11_NoticeOncePerRun ==
  /\ [](handled /\ listening => (ctrlCShown <=> key = CtrlC))
  /\ [](ctrlCShown <=> below[1] = NoticeRow)
  /\ [][Handling =>
          /\ (key = CtrlC /\ ~ctrlCShown) => noticeCount' = noticeCount + 1
          /\ (key = CtrlC /\ ctrlCShown) =>
               (noticeCount' = noticeCount /\ below' = below /\ ~wrote')
          /\ key # CtrlC => noticeCount' = noticeCount]_vars

\* Ctrl-C, another key, Ctrl-C: the notice is up for the second time
C11_Witness ==
  /\ handled /\ key = CtrlC
  /\ ctrlCShown /\ noticeCount = 2
  /\ below[1] = NoticeRow

\* the registry entries whose names start with str, in registry order
MatchesOf(str) == SelectSeq(COMMANDS, LAMBDA c : startsWith(c.name, str))

C13_ArrowsWrap ==
  [][Handling /\ (key = UpArrow \/ key = DownArrow) =>
       LET n == Len(filteredCommands)
       IN /\ input' = input
          /\ filteredCommands' = filteredCommands
          /\ isCommandMode' = isCommandMode
          /\ usedIndices' = usedIndices
          /\ IF isCommandMode /\ n > 0
             THEN /\ key = DownArrow => selectedIndex' = (selectedIndex + 1) % n
                  /\ key = UpArrow => selectedIndex' = (selectedIndex + n - 1) % n
             ELSE /\ selectedIndex' = selectedIndex
                  /\ renderedMenuLines' = renderedMenuLines
                  /\ menuVisible' = menuVisible
                  /\ updates' = <<>>]_vars

\* Up on the first of the five entries wrapped to the last one
C13_Witness ==
  /\ handled /\ key = UpArrow
  /\ isCommandMode /\ input = Slash
  /\ Len(filteredCommands) = 5 /\ selectedIndex = 4
  /\ below[5] = MenuRow(COMMANDS[5], TRUE)

\* what C14 says of every state
C14_IndexValid ==
  IF Len(filteredCommands) > 0
  THEN selectedIndex >= 0 /\ selectedIndex < Len(filteredCommands)
  ELSE selectedIndex = 0

\* C14: the Selection Index is a valid index into the Filtered List when the
\* list is non-empty and 0 when it is empty; a typed character, Backspace,
\* Tab-complete or Escape that changes the buffer resets it to 0.
C14_SelectionIndexInRange ==
  /\ []C14_IndexValid
  /\ [][Handling /\ ~IsEnter(key) /\ input' # input => selectedIndex' = 0]_vars

\* Tab completed /hint, the second entry: the selection is back on the first
C14_Witness ==
  /\ handled /\ key = Tab
  /\ input = <<"/","h","i","n","t">>
  /\ filteredCommands = <<COMMANDS[2]>> /\ selectedIndex = 0

\* C15: Tab in Command mode with a selected entry replaces the buffer by
\* that entry's name and stays in Command mode ("/h" with the first entry
\* selected becomes "/help"); Tab in Word mode or with an empty Filtered List
\* changes neither buffer, mode, selection, list nor Consumed Set.
C15_TabCompletes ==
  [][Handling /\ key = Tab =>
       IF isCommandMode /\ Len(filteredCommands) > 0
       THEN /\ input' = filteredCommands[selectedIndex + 1].name
            /\ isCommandMode'
            /\ (input = <<"/", "h">> /\ selectedIndex = 0) =>
                 input' = <<"/","h","e","l","p">>
       ELSE /\ input' = input
            /\ isCommandMode' = isCommandMode
            /\ selectedIndex' = selectedIndex
            /\ filteredCommands' = filteredCommands
            /\ usedIndices' = usedIndices
            /\ updates' = <<>>]_vars

\* Tab completed /help; the input line shows it and the menu has one row
C15_Witness ==
  /\ handled /\ key = Tab
  /\ isCommandMode /\ input = <<"/","h","e","l","p">>
  /\ shownInput = input /\ renderedMenuLines = 1

\* C16: in Command mode a typed character is appended to the buffer whether
\* or not the pool holds it, no character, Backspace, Tab or arrow handled in
\* Command mode changes the Consumed Set, and the Consumed Set is empty
\* throughout Command mode.
C16_CommandModeUnconstrained ==
  /\ [](isCommandMode => usedIndices = <<>>)
  /\ [][Handling /\ isCommandMode =>
          /\ key \in CharKeys => (input' = input \o key /\ isCommandMode')
          /\ (key \in CharKeys \/ IsBackspace(key) \/ key = Tab
                \/ key = UpArrow \/ key = DownArrow) =>
               usedIndices' = usedIndices]_vars

\* "h", a letter no pool holds, was appended to "/a" in Command mode
C16_Witness ==
  /\ handled /\ key = <<"h">>
  /\ isCommandMode /\ input = <<"/", "a", "h">>
  /\ usedIndices = <<>>

\* the key in hand matches no transition: a letter with no free pool index,
\* a digit or a mid-word "/" in Word mode, a Left arrow in either mode
C17_Unmatched ==
  \/ ~isCommandMode /\ IsLetterKey(key) /\ FreeFor(key) = {}
  \/ ~isCommandMode /\ key = <<"1">>
  \/ ~isCommandMode /\ key = Slash /\ input # <<>>
  \/ key = LeftArrow

\* C17: a key that matches no transition is absorbed: the buffer does not
\* change, onUpdate is not called and nothing is written to the terminal
\* (stated for keystrokes that arrive while no Ctrl-C notice is showing).
C17_UnmatchedKeyAbsorbed ==
  [][Handling /\ ~ctrlCShown /\ C17_Unmatched =>
       /\ input' = input
       /\ updates' = <<>>
       /\ ~wrote'
       /\ shownInput' = shownInput
       /\ below' = below]_vars

\* rows below the input line that show a menu entry
MenuRowsOnScreen == {i \in 1..ScreenRows : below[i].kind = "menu"}

\* C18: the Rendered Overlay Line Count equals the number of menu lines on
\* the screen, which are the rows right below the input line; a rendered
\* menu has as many lines as the Filtered List has entries, and with a count
\* of 0 no menu line remains.
C18_LineCountMatchesScreen ==
  /\ renderedMenuLines = Cardinality(MenuRowsOnScreen)
  /\ MenuRowsOnScreen = 1..renderedMenuLines
  /\ renderedMenuLines > 0 => renderedMenuLines = Len(filteredCommands)

\* "h" narrowed a five-line menu to two lines: three rows were erased
C18_Witness ==
  /\ handled /\ key = <<"h">>
  /\ input = <<"/", "h">> /\ renderedMenuLines = 2
  /\ below[2].kind = "menu" /\ below[3] = BlankRow /\ below[5] = BlankRow

\* the rows below the input line show the entries of fc, one per row and in
\* order, and no other menu row
OverlayShows(fc) ==
  \A i \in 1..ScreenRows :
    IF i <= Len(fc)
    THEN below[i].kind = "menu" /\ below[i].name = fc[i].name
    ELSE below[i].kind # "menu"

\* C19 as stated: after every keystroke handled in Command mode the overlay
\* shows exactly the entries of the Filtered List, and in Word mode no
\* overlay line is drawn.
C19_OverlayShowsFilteredList ==
  (handled /\ listening) =>
    IF isCommandMode THEN OverlayShows(filteredCommands) ELSE OverlayShows(<<>>)

\* C19 as amended: after every keystroke handled in Command mode the overlay
\* shows exactly the entries of the Filtered List unless the Ctrl-C notice is
\* showing; a Ctrl-C erases the overlay and no overlay line is drawn while
\* its notice shows; in Word mode no overlay line is drawn.
C19_OverlayShowsListUnlessNotice ==
  (handled /\ listening) =>
    IF isCommandMode /\ ~ctrlCShown
    THEN OverlayShows(filteredCommands)
    ELSE OverlayShows(<<>>)

\* a Backspace shortened the buffer to "/h": the menu shows /help and /hint again
C19_Witness ==
  /\ handled /\ listening /\ IsBackspace(key)
  /\ isCommandMode /\ ~ctrlCShown /\ input = <<"/", "h">>
  /\ below[1] = MenuRow(COMMANDS[1], TRUE)
  /\ below[2] = MenuRow(COMMANDS[2], FALSE)
  /\ below[3] = BlankRow

\* one onUpdate call, made with the buffer and Consumed Set the keystroke left
C20_OneUpdate ==
  updates' = <<[input |-> input', usedIndices |-> usedIndices']>>

\* C20: an accepted letter and a Backspace of a letter in Word mode call
\* onUpdate exactly once, with the buffer and Consumed Set the keystroke
\* leaves; a character, Backspace, Tab or arrow handled in Command mode does
\* not call it.
C20_OnUpdatePerWordEdit ==
  [][Handling =>
       /\ (~isCommandMode /\ IsLetterKey(key) /\ FreeFor(key) # {}) =>
            (input' # input /\ C20_OneUpdate)
       /\ (~isCommandMode /\ IsBackspace(key) /\ input # <<>>) =>
            (input' # input /\ C20_OneUpdate)
       /\ (isCommandMode /\ (key \in CharKeys \/ IsBackspace(key) \/ key = Tab
                               \/ key = UpArrow \/ key = DownArrow)) =>
            updates' = <<>>]_vars

\* a Backspace took a two-letter word back to one letter: one call, with the
\* remaining letter and its index
C20_Witness ==
  /\ handled /\ IsBackspace(key)
  /\ ~isCommandMode /\ Len(input) = 1
  /\ updates = <<[input |-> input, usedIndices |-> usedIndices]>>
  /\ Len(usedIndices) = 1

\* C21: at most one editor is active at any time: the keystroke handler is
\* registered on stdin at most once, it is registered exactly while an
\* editor awaits keystrokes, and the game loop registers it again only when
\* the previous editor has resolved and removed it.
C21_OneEditorAtATime ==
  /\ [](listeners \in {0, 1})
  /\ [](listening <=> listeners = 1)
  /\ [][listeners' > listeners =>
          /\ listeners = 0
          /\ result.resolved
          /\ pc \in {"editing", "help", "hint", "guess"}]_vars

\* Enter resolved an editor and the loop has started the next one
C21_Witness ==
  /\ pc = "editing" /\ listening /\ listeners = 1
  /\ handled /\ key = EnterCR
  /\ input = <<>> /\ ~result.resolved

\* C22: a hint or guess request is in flight only while no editor is active:
\* it is issued after the editor has resolved and removed its listener, no
\* keystroke is handled while it is in flight, and the next editor starts
\* only when it has come back.
C22_RequestsOnlyBetweenEditors ==
  /\ [](inFlight # "none" =>
          /\ ~listening /\ listeners = 0
          /\ result.resolved
          /\ pc = inFlight)
  /\ [][(inFlight = "none" /\ inFlight' # "none") =>
          (result.resolved /\ ~listening /\ ~listening')]_vars
  /\ [][Handling => (inFlight = "none" /\ inFlight' = "none")]_vars
  /\ [][(~listening /\ listening') => inFlight' = "none"]_vars

\* the hint request is in flight after the editor resolved with /hint
C22_Witness ==
  /\ pc = "hint" /\ inFlight = "hint"
  /\ result.resolved /\ result.isCommand
  /\ result.input = <<"/","h","i","n","t">>
  /\ ~listening /\ ~rawMode

\* the multiset of the letters of a string
LetterBag(str) == [c \in Range(str) |-> Occurrences(str, c)]

\* C23: the letter pool is not modified between an editor's creation and its
\* resolution: no step taken while an editor is active, and so no keystroke,
\* changes its contents or order; the pool changes only by the caller's
\* shuffle, which runs when the editor has resolved with /shuffle and before
\* the next editor is created.
C23_PoolFixedWhileEditing ==
  /\ [][listening => pool' = pool]_vars
  /\ [][Handling => pool' = pool]_vars
  /\ [][pool' # pool =>
          /\ ~listening /\ listeners = 0
          /\ result.resolved
          /\ result.input = <<"/","s","h","u","f","f","l","e">>
          /\ LetterBag(pool') = LetterBag(pool)]_vars

\* a shuffle has turned the pool AB into BA, and the next editor has consumed
\* the A at its new place
C23_Witness ==
  /\ scramble = <<"a", "B">> /\ pool = <<"B", "A">>
  /\ listening /\ handled /\ key = <<"a">>
  /\ input = <<"A">> /\ usedIndices = <<1>>

\* the state a new closure of interactiveInput is in
C24_Fresh ==
  /\ input = <<>>
  /\ ~isCommandMode
  /\ usedIndices = <<>>
  /\ selectedIndex = 0
  /\ renderedMenuLines = 0
  /\ filteredCommands = <<>>

\* C24: every editor session starts with an empty buffer, mode Word, an
\* empty Consumed Set, Selection Index 0 and Rendered Overlay Line Count 0,
\* whatever state the previous session ended in.
C24_SessionStartsFresh ==
  /\ C24_Fresh
  /\ [][(~listening /\ listening') =>
          (C24_Fresh' /\ result' = NoResult /\ ~ctrlCShown')]_vars

\* the previous session ended in Command mode on an unknown command; the
\* next one has started
C24_Witness ==
  /\ pc = "editing" /\ listening
  /\ handled /\ key = EnterCR
  /\ below[1] = MessageRow("unknown")
  /\ C24_Fresh

\* C25: the step that resolves the editor is the handling of Enter, and the
\* same step removes the handler from stdin and turns raw mode off; a
\* resolved editor has no handler registered, so its handler never runs
\* again (it resolves at most once) and a keystroke that arrives after the
\* resolution changes neither its state nor its result.
C25_ReleasesStreamOnResolution ==
  /\ [][(~result.resolved /\ result'.resolved) =>
          /\ Handling /\ IsEnter(key)
          /\ listening /\ ~listening'
          /\ rawMode /\ ~rawMode'
          /\ listeners' = listeners - 1]_vars
  /\ [](result.resolved => (~listening /\ listeners = 0))
  /\ [][result.resolved => ~Handling]_vars
  /\ [][(result.resolved /\ result'.resolved) =>
          /\ result' = result
          /\ UNCHANGED <<input, isCommandMode, usedIndices, selectedIndex,
                         filteredCommands, renderedMenuLines>>]_vars

\* "a" was submitted as a guess; while the request is in flight the key "B"
\* arrives and leaves the resolved editor as it was
C25_Witness ==
  /\ pc = "guess" /\ result.resolved
  /\ result.input = <<"a">> /\ input = <<"A">>
  /\ handled /\ key = <<"B">>
  /\ ~listening /\ ~rawMode /\ listeners = 0

\* C26: Backspace in Command mode removes exactly the last buffer character;
\* if the buffer is then empty or no longer starts with "/", the mode becomes
\* Word, the Filtered List is emptied and the overlay is erased; otherwise
\* the mode stays Command and the Filtered List is recomputed from the
\* shortened buffer.  Backspace on an empty buffer changes neither buffer,
\* mode, list, selection, Consumed Set nor overlay, and writes nothing unless
\* it takes a Ctrl-C notice down.
C26_CommandBackspace ==
  [][Handling /\ IsBackspace(key) =>
       /\ (isCommandMode /\ input # <<>>) =>
            /\ input' = sliceLast(input)
            /\ usedIndices' = usedIndices
            /\ updates' = <<>>
            /\ IF input' = <<>> \/ ~startsWith(input', Slash)
               THEN /\ ~isCommandMode'
                    /\ filteredCommands' = <<>>
                    /\ renderedMenuLines' = 0
                    /\ \A i \in 1..ScreenRows : below'[i].kind # "menu"
               ELSE /\ isCommandMode'
                    /\ filteredCommands' = MatchesOf(input')
                    /\ renderedMenuLines' = Len(filteredCommands')
       /\ input = <<>> =>
            /\ input' = <<>>
            /\ UNCHANGED <<isCommandMode, filteredCommands, selectedIndex,
                           usedIndices, renderedMenuLines, menuVisible>>
            /\ updates' = <<>>
            /\ ~ctrlCShown => (~wrote' /\ below' = below /\ shownInput' = shownInput)]_vars

\* Backspace removed the "/" of the buffer "/": Word mode, no list, no
\* overlay, the input line redrawn empty
C26_Witness ==
  /\ handled /\ IsBackspace(key)
  /\ input = <<>> /\ ~isCommandMode /\ filteredCommands = <<>>
  /\ noticeCount = 0 /\ wrote /\ updates = <<>>
  /\ below = BlankScreen

\* C27: /shuffle only reorders the letters: after any number of shuffles the
\* pool handed to the next editor has the length of the puzzle's original
\* scramble and the same multiset of letters (letters compared as the pool
\* holds them, in upper case).
C27_ShuffleKeepsLetters ==
  /\ [](/\ Len(pool) = Len(scramble)
        /\ LetterBag(pool) = LetterBag(letterPoolOf(scramble))
        /\ pool = letterPoolOf(currentScramble))
  /\ [][currentScramble' # currentScramble =>
          /\ Len(currentScramble') = Len(currentScramble)
          /\ LetterBag(currentScramble') = LetterBag(currentScramble)]_vars

\* the scramble aaB after shuffles that brought the B to the front; the next
\* editor is waiting
C27_Witness ==
  /\ scramble = <<"a", "a", "B">>
  /\ pool = <<"B", "A", "A">>
  /\ pc = "editing" /\ listening /\ input = <<>>
  /\ below[1] = MessageRow("shuffled")

\* the least element of a non-empty set of numbers
C28_Min(S) == CHOOSE i \in S : \A j \in S : i <= j

\* C28: for the letter typed, isLetterAvailable returns the lowest pool index
\* whose letter equals it case-insensitively and which is not consumed, and
\* -1 exactly when there is none; the Consumed Set changes only by the caller
\* adding the index returned.
C28_LowestFreeIndex ==
  /\ [](IsLetterKey(key) =>
          isLetterAvailable(key[1], pool, usedIndices) =
            IF FreeFor(key) = {} THEN -1 ELSE C28_Min(FreeFor(key)))
  /\ [][Handling /\ ~isCommandMode /\ IsLetterKey(key) =>
          usedIndices' =
            IF FreeFor(key) = {} THEN usedIndices
            ELSE Append(usedIndices, C28_Min(FreeFor(key)))]_vars

\* pool ABA: the second "a" skipped the B at index 1 and took index 2
C28_Witness ==
  /\ pool = <<"A", "B", "A">>
  /\ handled /\ key = <<"a">>
  /\ ~isCommandMode /\ input = <<"A", "A">>
  /\ usedIndices = <<0, 2>>

\* C29: Backspace in Word mode on a non-empty buffer removes the last
\* character and removes from the Consumed Set exactly one index whose pool
\* letter matches the removed character, leaving the other consumed indices
\* in place and in order; if no consumed index matches, the Consumed Set is
\* left unchanged, and in either case the handler completes and the editor
\* stays active.
C29_BackspaceReleasesOne ==
  [][Handling /\ IsBackspace(key) /\ ~isCommandMode /\ input # <<>> =>
       LET c == toUpperCase(input[Len(input)])
           matching == ConsumedOf(usedIndices, pool, c)
           freed == Consumed(usedIndices) \ Consumed(usedIndices')
       IN /\ input' = sliceLast(input)
          /\ IF matching = {}
             THEN usedIndices' = usedIndices
             ELSE /\ Cardinality(freed) = 1
                  /\ freed \subseteq matching
                  /\ usedIndices' = SelectSeq(usedIndices, LAMBDA i : i \notin freed)
          /\ ~isCommandMode'
          /\ listening' /\ result' = NoResult
          /\ updates' = <<[input |-> input', usedIndices |-> usedIndices']>>]_vars

\* Backspace removed a letter that no consumed index holds: the buffer is
\* empty, index 0 is still consumed
C29_Witness ==
  /\ handled /\ IsBackspace(key)
  /\ ~isCommandMode /\ input = <<>>
  /\ usedIndices = <<0>>
  /\ updates = <<[input |-> <<>>, usedIndices |-> <<0>>]>>
  /\ listening

C31_Letters == Range(input) \cup {toUpperCase(pool[i]) : i \in DOMAIN pool}

\* C31: in every Word-mode state, for each letter L the consumed indices whose
\* pool letter is L are as many as the occurrences of L in the buffer, so the
\* buffer is a sub-multiset of the pool.
C31_BufferIsConsumedLetters ==
  ~isCommandMode =>
    \A L \in C31_Letters :
      /\ Cardinality(ConsumedOf(usedIndices, pool, L)) = Occurrences(input, L)
      /\ Occurrences(input, L) <= Occurrences(letterPoolOf(pool), L)

\* pool ABA typed out in full, the duplicate letter consuming indices 0 and 2
C31_Witness ==
  /\ pool = <<"A", "B", "A">>
  /\ handled /\ key = <<"a">>
  /\ ~isCommandMode /\ input = <<"A", "B", "A">>
  /\ usedIndices = <<0, 1, 2>>

\* C32: the mode is Command exactly when the buffer is non-empty and starts
\* with "/"; a Word-mode buffer holds only upper-case letters A-Z; and the
\* flag of a resolved editor is true exactly when the resolved buffer starts
\* with "/".
C32_ModeIsLeadingSlash ==
  /\ isCommandMode <=> (input # <<>> /\ startsWith(input, Slash))
  /\ ~isCommandMode => Range(input) \subseteq Range(UpperLetters)
  /\ result.resolved => (result.isCommand <=> startsWith(result.input, Slash))

\* Enter has resolved a two-letter word: Word mode, no leading "/", flag off
C32_Witness ==
  /\ handled /\ IsEnter(key)
  /\ ~isCommandMode /\ input = <<"A", "B">>
  /\ result.resolved /\ ~result.isCommand
  /\ result.input = <<"a", "b">>

\* the editor after the listener has handled letter key k and then Backspace
C33_LetterThenBackspace(k) ==
  handleKey(handleKey(State, k, pool), Backspace, pool)

\* the editor waits for a key in Word mode and the pool has a free index for
\* the letter of key k
C33_CanType(k) ==
  /\ listening /\ handled /\ ~isCommandMode
  /\ IsLetterKey(k) /\ FreeFor(k) # {}

\* C33 as stated: in Word mode, an available letter followed by Backspace
\* leaves the buffer and the set of consumed pool indices exactly as they were
\* before the letter.
C33_LetterBackspaceRestoresIndices ==
  \A k \in CharKeys :
    C33_CanType(k) =>
      LET t == C33_LetterThenBackspace(k)
      IN /\ t.input = input
         /\ Consumed(t.usedIndices) = Consumed(usedIndices)

\* C33: in Word mode, an available letter followed by Backspace restores the
\* buffer, and the Consumed Set again holds as many indices of every letter as
\* before; the indices are the same ones when no index of the typed letter was
\* consumed before the letter, otherwise the index consumed first for that
\* letter is freed and the one just taken stays.
C33_LetterBackspaceRestoresLetters ==
  \A k \in CharKeys :
    C33_CanType(k) =>
      LET t == C33_LetterThenBackspace(k)
          L == toUpperCase(k[1])
      IN /\ t.input = input
         /\ \A c \in C31_Letters :
              Cardinality(ConsumedOf(t.usedIndices, pool, c))
                = Cardinality(ConsumedOf(usedIndices, pool, c))
         /\ ConsumedOf(usedIndices, pool, L) = {} => t.usedIndices = usedIndices
         /\ ConsumedOf(usedIndices, pool, L) # {} =>
              LET first == usedIndices[CHOOSE j \in DOMAIN usedIndices :
                             /\ toUpperCase(pool[usedIndices[j] + 1]) = L
                             /\ \A h \in 1..(j - 1) :
                                  toUpperCase(pool[usedIndices[h] + 1]) # L]
              IN Consumed(t.usedIndices) =
                   (Consumed(usedIndices) \cup {isLetterAvailable(k[1], pool, usedIndices)})
                     \ {first}

\* pool AA: A (index 0), A (index 1), Backspace: the buffer is "A" again, but
\* index 0 is freed and index 1 stays, where index 0 was consumed before the
\* second letter
C33_Witness ==
  /\ pool = <<"A", "A">>
  /\ handled /\ IsBackspace(key)
  /\ ~isCommandMode /\ input = <<"A">>
  /\ usedIndices = <<1>>

\* C34: Tab is idempotent in Command mode: in the state a Tab leaves, a second
\* Tab changes neither buffer, Filtered List nor Selection Index; after a Tab
\* that had a selected entry the buffer is a registry name, the Filtered List
\* holds that command alone and the Selection Index is 0.
C34_TabIdempotent ==
  [][Handling /\ key = Tab /\ isCommandMode =>
       LET again == handleKey(State', Tab, pool)
       IN /\ again.input = input'
          /\ again.filteredCommands = filteredCommands'
          /\ again.selectedIndex = selectedIndex'
          /\ hasSelection(State) =>
               /\ \E i \in DOMAIN COMMANDS : input' = COMMANDS[i].name
               /\ Len(filteredCommands') = 1
               /\ filteredCommands'[1].name = input'
               /\ selectedIndex' = 0]_vars

\* "/" with the fourth entry selected has been completed to "/quit"
C34_Witness ==
  /\ handled /\ key = Tab
  /\ isCommandMode /\ input = <<"/","q","u","i","t">>
  /\ filteredCommands = <<COMMANDS[4]>> /\ selectedIndex = 0
  /\ renderedMenuLines = 1

\* C35: Enter handled in Command mode with a non-empty Filtered List resolves
\* with the full name of the registry command at the Selection Index, whatever
\* prefix the buffer holds and whether or not the overlay is drawn.
C35_EnterResolvesSelectedCommand ==
  [][Handling /\ IsEnter(key) /\ isCommandMode /\ Len(filteredCommands) > 0 =>
       /\ result'.resolved /\ result'.isCommand
       /\ selectedIndex \in 0..(Len(filteredCommands) - 1)
       /\ result'.input = filteredCommands[selectedIndex + 1].name
       /\ \E i \in DOMAIN COMMANDS : result'.input = COMMANDS[i].name]_vars

\* "/q", a Ctrl-C that took the overlay down, then Enter: resolved with "/quit"
C35_Witness ==
  /\ handled /\ IsEnter(key)
  /\ result.resolved /\ result.isCommand
  /\ result.input = <<"/","q","u","i","t">>
  /\ shownInput = <<"/","q">>
  /\ noticeCount = 1

\* doPlay takes up the answer of a resolved editor
C36_Answered == pc = "editing" /\ result.resolved

\* the answer is empty or a command: isCommand || answer.startsWith("/")
C36_NoGuess ==
  \/ result.input = <<>>
  \/ result.isCommand
  \/ startsWith(result.input, Slash)

\* a guess request is posted in this step
C36_PostsGuess == inFlight # "guess" /\ inFlight' = "guess"

\* the loop goes on to a new editor: at once, after the key /help waits for,
\* or after the hint request
C36_GoesOn == pc' \in {"editing", "help", "hint"}

\* a guess is posted only for an answer that is neither empty nor a command,
\* and always for such an answer; an empty answer or a command leaves
\* attempts, done and the guess history as they are; the waits of /help and
\* /hint end in a new editor
C36_GuessOnlyForWords ==
  /\ C36_PostsGuess => C36_Answered /\ ~C36_NoGuess
  /\ (C36_Answered /\ ~C36_NoGuess) => C36_PostsGuess /\ pc' = "guess"
  /\ (C36_Answered /\ C36_NoGuess) =>
       /\ attempts' = attempts
       /\ done' = done
       /\ guessHistory' = guessHistory
  /\ pc \in {"help", "hint"} =>
       /\ pc' = "editing" /\ listening' /\ ~result'.resolved
       /\ attempts' = attempts /\ done' = done /\ guessHistory' = guessHistory

C37_Called == calls' # calls

\* the counters and streaks of the stats file
C37_Counters(st) ==
  <<st.gamesPlayed, st.gamesWon, st.currentStreak, st.maxStreak,
    st.guessDistribution>>

\* the calls whose dateKey differs from that of the call before (the first
\* call differs from the empty lastPlayedDate of a new file)
C37_Runs ==
  {i \in DOMAIN calls : i = 1 \/ calls[i] # calls[i - 1]}

\* C37 as stated: over any sequence of updateStats calls gamesPlayed is
\* incremented at most once per distinct dateKey, and a call whose dateKey
\* was recorded by an earlier call changes no counter or streak.
C37_CountsEachDateOnce ==
  /\ [](stats.gamesPlayed <= Cardinality(Range(calls)))
  /\ [][(C37_Called /\ calls'[Len(calls')] \in Range(calls)) =>
          C37_Counters(stats') = C37_Counters(stats)]_vars

\* C37 as amended: a call whose dateKey is the one recorded last
\* (lastPlayedDate) changes nothing in the file; any other call increments
\* gamesPlayed by one and records its dateKey, whether or not an earlier call
\* had that dateKey; so gamesPlayed counts the runs of consecutive calls with
\* the same dateKey.
C37_CountsRunsOfDates ==
  /\ [](stats.gamesPlayed = Cardinality(C37_Runs))
  /\ [][C37_Called =>
          IF calls'[Len(calls')] = stats.lastPlayedDate
          THEN stats' = stats
          ELSE /\ stats'.gamesPlayed = stats.gamesPlayed + 1
               /\ stats'.lastPlayedDate = calls'[Len(calls')]]_vars

\* three calls for dates d1, d2, d1: d1 has been counted twice
C37_Witness ==
  /\ calls = <<"d1", "d2", "d1">>
  /\ stats.gamesPlayed = 3
  /\ stats.lastPlayedDate = "d1"

====
